---- MODULE Spec2Model ----
(***************************************************************************)
(* UserDataETL (src/inforce_data_enj.py): generate_csv, transform_data,    *)
(* load_to_postgresql and the run_etl driver, as a state machine over the  *)
(* two intermediate files and the users table.                            *)
(*                                                                         *)
(* Text is a sequence of one-character strings.  "a" stands for any letter *)
(* or digit.  A timestamp "YYYY-MM-DD HH:MM:SS" is <<day, tod>>, a date    *)
(* "YYYY-MM-DD" is <<day>>.                                                *)
(***************************************************************************)
EXTENDS Integers, Sequences, FiniteSets, TLC

VARIABLES
    num_records,   \* self.num_records
    rawFile,       \* fake_data.csv
    outFile,       \* transformed_users_data.csv
    db,            \* the destination store, committed state
    tx,            \* the state seen by the open transaction of conn
    conn,          \* load_to_postgresql's local conn: "none", "open", "closed"
    cur,           \* load_to_postgresql's local cur:  "none", "open", "closed"
    run,           \* run_etl: "none", "active", "returned"
    method,        \* the method running (or the last one that ran)
    pc,            \* the statement it is at; "return" / "raise" once it ended
    i,             \* loop index of generate_csv / position inside executemany
    data,          \* the local DataFrame (transform_data, load_to_postgresql)
    printed,       \* what the current top-level call printed, in order
    startDb,       \* history: db when the current top-level call started
    failedAt,      \* history: the statement of load_to_postgresql that raised
    commits,       \* history: the commits of the current load, in order
    prevLoad       \* history: the file and table left by the call before the
                   \* current top-level call, if that was a load that succeeded

vars == <<num_records, rawFile, outFile, db, tx, conn, cur, run, method, pc, i,
          data, printed, startDb, failedAt, commits, prevLoad>>

\* ---------------------------------------------------------------- bounds

MaxRecords == 2

MaxEmailLen == 6

\* ------------------------------------------------------------------ text

Range(s) == {s[k] : k \in 1..Len(s)}

\* The characters emails are built from: a letter/digit, "_", ".", "@" and
\* a line feed (in none of the pattern's classes).
Chars == {"a", "_", ".", "@", "\n"}

AllEmails == UNION {[1..n -> Chars] : n \in 0..MaxEmailLen}

\* pandas' missing value (a float) and Python's None, as texts no email equals
NaN == <<"NaN">>

None == <<"None">>

\* The three character classes of email_regex
LocalClass == {"a", "_", ".", "+", "-"}

DomainClass == {"a", "-"}

SuffixClass == {"a", "-", "."}

AllIn(s, lo, hi, class) == \A k \in lo..hi : s[k] \in class

\* '^L+@D+\.S+' matched on s[1..end], whole
MatchesUpTo(s, end) ==
    \E at \in 2..end : \E dot \in (at + 2)..(end - 1) :
        /\ s[at] = "@"
        /\ s[dot] = "."
        /\ AllIn(s, 1, at - 1, LocalClass)
        /\ AllIn(s, at + 1, dot - 1, DomainClass)
        /\ AllIn(s, dot + 1, end, SuffixClass)

\* Where Python's '$' matches: at the end of the string, and just before a
\* line feed that ends the string.
DollarPositions(s) ==
    {Len(s)} \cup (IF Len(s) > 0 /\ s[Len(s)] = "\n" THEN {Len(s) - 1} ELSE {})

IsValidEmail(email) == \E end \in DollarPositions(email) : MatchesUpTo(email, end)

HasAt(email) == "@" \in Range(email)

RECURSIVE Split(_, _)
Split(s, sep) ==
    IF sep \notin Range(s)
    THEN <<s>>
    ELSE LET p == CHOOSE k \in 1..Len(s) :
                      s[k] = sep /\ \A j \in 1..(k - 1) : s[j] # sep
         IN  <<SubSeq(s, 1, p - 1)>> \o Split(SubSeq(s, p + 1, Len(s)), sep)

ExtractDomainFirstPart(email) ==
    IF HasAt(email) THEN Split(email, "@")[1] ELSE None

ExtractDomain(email) ==
    IF HasAt(email) THEN Split(email, "@")[Len(Split(email, "@"))] ELSE None

\* ----------------------------------------------------- files and frames

RawHeader == <<"user_id", "name", "email", "signup_date">>

OutHeader == <<"user_id", "name", "email", "signup_date", "domain">>

NoFile == [exists |-> FALSE, header |-> <<>>, rows |-> <<>>]

EmptyFile == [exists |-> TRUE, header |-> <<>>, rows |-> <<>>]

NoData == [columns |-> <<>>, rows |-> <<>>]

\* What Faker draws for one record: fake.name(), fake.email() and
\* fake.date_time_between(...).strftime(...).  The second email is no email.
FakeProfiles ==
    { [name |-> <<"A", "n", "n">>, email |-> <<"a", "@", "a", ".", "a">>,
       signup_date |-> <<1, 1>>],
      [name |-> <<"B", "o", "b">>, email |-> <<"a", ".", "a">>,
       signup_date |-> <<2, 2>>],
      [name |-> <<"C", "y">>, email |-> <<"a", "_", "@", "a", ".", "a">>,
       signup_date |-> <<3, 0>>] }

RawRow(id, p) ==
    [user_id |-> id, name |-> p.name, email |-> p.email, signup_date |-> p.signup_date]

\* range(1, self.num_records + 1) is over when i reaches this
RangeStopShort(n) == n

RangeStop(n) == n + 1

\* pandas.read_csv reads an empty text field as NaN
ParseText(t) == IF t = <<>> THEN NaN ELSE t

ParseRow(r) ==
    [f \in DOMAIN r |->
        IF f \in {"name", "email", "domain"} THEN ParseText(r[f]) ELSE r[f]]

\* pd.read_csv raises when the file is missing or has no header line
ReadFails(f) == ~f.exists \/ f.header = <<>>

ReadCsv(f) ==
    [columns |-> f.header, rows |-> [k \in 1..Len(f.rows) |-> ParseRow(f.rows[k])]]

\* DataFrame.to_csv writes NaN and None as an empty field
FormatText(v) == IF v \in {NaN, None} THEN <<>> ELSE v

FormatRow(r) ==
    [f \in DOMAIN r |->
        IF f \in {"name", "email", "domain"} THEN FormatText(r[f]) ELSE r[f]]

ToCsv(d) ==
    [exists |-> TRUE, header |-> d.columns,
     rows |-> [k \in 1..Len(d.rows) |-> FormatRow(d.rows[k])]]

\* pd.to_datetime(...).dt.date: the calendar date of a timestamp
ToDate(stamp) == <<stamp[1]>>

WithDates(d) ==
    [d EXCEPT !.rows = [k \in 1..Len(d.rows) |->
                           [d.rows[k] EXCEPT !.signup_date = ToDate(@)]]]

\* re.match raises TypeError on a NaN (float) email
FilterRaises(d) == \E k \in 1..Len(d.rows) : d.rows[k].email = NaN

KeepRow(r) == IsValidEmail(r.email)

\* data[data['email'].apply(self.is_valid_email)].  On a frame with no rows
\* apply returns an empty object Series, which is no boolean mask: pandas
\* takes it as an empty list of column labels and the result has no columns.
FilterValid(d) ==
    IF d.rows = <<>>
    THEN NoData
    ELSE [d EXCEPT !.rows = SelectSeq(@, KeepRow)]

\* data['email'] raises KeyError when the frame has no such column
DomainRaises(d) == "email" \notin Range(d.columns)

WithDomain(d) ==
    [columns |-> Append(d.columns, "domain"),
     rows |-> [k \in 1..Len(d.rows) |->
                  [f \in DOMAIN d.rows[k] \cup {"domain"} |->
                      IF f = "domain" THEN ExtractDomain(d.rows[k].email)
                      ELSE d.rows[k][f]]]]

\* data[['name', 'email', 'signup_date']].values.tolist()
RecordsRaises(d) == ~({"name", "email", "signup_date"} \subseteq Range(d.columns))

Records(d) ==
    [columns |-> <<"name", "email", "signup_date">>,
     rows |-> [k \in 1..Len(d.rows) |->
                  [name |-> d.rows[k].name, email |-> d.rows[k].email,
                   signup_date |-> d.rows[k].signup_date]]]

\* ------------------------------------------------------ destination store

NoTable == [exists |-> FALSE, rows |-> <<>>, seq |-> 1]

\* CREATE TABLE IF NOT EXISTS users (user_id SERIAL PRIMARY KEY, ...)
Created(t) == IF t.exists THEN t ELSE [exists |-> TRUE, rows |-> <<>>, seq |-> 1]

\* TRUNCATE TABLE users RESTART IDENTITY
TruncatedKeepIdentity(t) == [t EXCEPT !.rows = <<>>]

TruncatedNothing(t) == t

Truncated(t) == [t EXCEPT !.rows = <<>>, !.seq = 1]

\* A date text stored in a TIMESTAMP column is that day's midnight
PgTimestamp(date) == <<date[1], 0>>

\* INSERT INTO users (name, email, signup_date) VALUES (%s, %s, %s): user_id
\* comes from the table's sequence.
PgRowSwapped(key, rec) ==
    [user_id |-> key, name |-> rec.email, email |-> rec.name,
     signup_date |-> PgTimestamp(rec.signup_date)]

PgRow(key, rec) ==
    [user_id |-> key, name |-> rec.name, email |-> rec.email,
     signup_date |-> PgTimestamp(rec.signup_date)]

\* conn.commit(): the transaction's state becomes the committed state
CommittedNothing(d, t) == d

Committed(d, t) == t

\* --------------------------------------------------------------- control

GENERATE == "generate_csv"

TRANSFORM == "transform_data"

LOAD == "load_to_postgresql"

\* No call in progress: nothing ran yet, or the last top-level call ended
TopIdle == run # "active" /\ pc \in {"idle", "return", "raise"}

FirstPc(m) ==
    CASE m = GENERATE -> "open"
      [] m = TRANSFORM -> "read_csv"
      [] m = LOAD -> "connect"

\* A method is entered: its locals are fresh
BeginMethod(m) ==
    /\ method' = m
    /\ pc' = FirstPc(m)
    /\ i' = 0
    /\ data' = NoData
    /\ conn' = "none"
    /\ cur' = "none"
    /\ tx' = NoTable
    /\ failedAt' = "none"
    /\ commits' = <<>>

NoLoad == [valid |-> FALSE, file |-> NoFile, db |-> NoTable]

\* load_to_postgresql ran to its end with no except clause entered
LoadSucceeded == method = LOAD /\ pc = "return" /\ failedAt = "none"

\* A top-level call starts; the history variables note where it starts from
BeginTopLevel ==
    /\ printed' = <<>>
    /\ startDb' = db
    /\ prevLoad' = IF LoadSucceeded
                   THEN [valid |-> TRUE, file |-> outFile, db |-> db]
                   ELSE NoLoad

\* run_etl's try block: the call that follows each call ("none": no more)
NextStageLoadFirst(m) ==
    CASE m = GENERATE -> LOAD
      [] m = TRANSFORM -> "none"
      [] m = LOAD -> TRANSFORM

NextStage(m) ==
    CASE m = GENERATE -> TRANSFORM
      [] m = TRANSFORM -> LOAD
      [] m = LOAD -> "none"

\* Where load_to_postgresql is after one of its except clauses printed
ReraisedPc == "raise"

HandledPc == "return"

\* ------------------------------------------------------------- run_etl

RunEtl ==
    /\ TopIdle
    /\ run' = "active"
    /\ BeginMethod(GENERATE)
    /\ BeginTopLevel
    /\ UNCHANGED <<num_records, rawFile, outFile, db>>

\* the try block goes on to its next statement, or run_etl returns
EtlStep ==
    /\ run = "active"
    /\ pc = "return"
    /\ IF NextStage(method) = "none"
       THEN /\ run' = "returned"
            /\ UNCHANGED <<method, pc, i, data, conn, cur, tx, failedAt, commits>>
       ELSE /\ BeginMethod(NextStage(method))
            /\ UNCHANGED run
    /\ UNCHANGED <<num_records, rawFile, outFile, db, printed, startDb, prevLoad>>

\* except Exception as e: print(f"ETL process failed: {e}")
EtlExcept ==
    /\ run = "active"
    /\ pc = "raise"
    /\ run' = "returned"
    /\ printed' = Append(printed, "ETL process failed")
    /\ UNCHANGED <<num_records, rawFile, outFile, db, tx, conn, cur, method, pc, i,
                   data, startDb, failedAt, commits, prevLoad>>

\* ---------------------------------------------------------- generate_csv

CallGenerate ==
    /\ TopIdle
    /\ run' = "none"
    /\ BeginMethod(GENERATE)
    /\ BeginTopLevel
    /\ UNCHANGED <<num_records, rawFile, outFile, db>>

\* open(self.csv_filename, mode='w', ...) truncates the file
GenOpen ==
    /\ method = GENERATE /\ pc = "open"
    /\ rawFile' = EmptyFile
    /\ pc' = "writeheader"
    /\ UNCHANGED <<num_records, outFile, db, tx, conn, cur, run, method, i, data,
                   printed, startDb, failedAt, commits, prevLoad>>

GenHeader ==
    /\ method = GENERATE /\ pc = "writeheader"
    /\ rawFile' = [rawFile EXCEPT !.header = RawHeader]
    /\ i' = 1
    /\ pc' = "for"
    /\ UNCHANGED <<num_records, outFile, db, tx, conn, cur, run, method, data,
                   printed, startDb, failedAt, commits, prevLoad>>

GenRow ==
    /\ method = GENERATE /\ pc = "for"
    /\ i < RangeStop(num_records)
    /\ \E p \in FakeProfiles :
           rawFile' = [rawFile EXCEPT !.rows = Append(@, RawRow(i, p))]
    /\ i' = i + 1
    /\ UNCHANGED <<num_records, outFile, db, tx, conn, cur, run, method, pc, data,
                   printed, startDb, failedAt, commits, prevLoad>>

GenDone ==
    /\ method = GENERATE /\ pc = "for"
    /\ i >= RangeStop(num_records)
    /\ printed' = Append(printed, "Generated")
    /\ pc' = "return"
    /\ UNCHANGED <<num_records, rawFile, outFile, db, tx, conn, cur, run, method, i,
                   data, startDb, failedAt, commits, prevLoad>>

\* open or a write fails (OSError): what was written so far stays
GenIOError ==
    /\ method = GENERATE /\ pc \in {"open", "writeheader", "for"}
    /\ pc' = "raise"
    /\ UNCHANGED <<num_records, rawFile, outFile, db, tx, conn, cur, run, method, i,
                   data, printed, startDb, failedAt, commits, prevLoad>>

\* -------------------------------------------------------- transform_data

CallTransform ==
    /\ TopIdle
    /\ run' = "none"
    /\ BeginMethod(TRANSFORM)
    /\ BeginTopLevel
    /\ UNCHANGED <<num_records, rawFile, outFile, db>>

\* data = pd.read_csv(self.csv_filename)
TRead ==
    /\ method = TRANSFORM /\ pc = "read_csv"
    /\ IF ReadFails(rawFile)
       THEN pc' = "raise" /\ UNCHANGED data
       ELSE pc' = "to_datetime" /\ data' = ReadCsv(rawFile)
    /\ UNCHANGED <<num_records, rawFile, outFile, db, tx, conn, cur, run, method, i,
                   printed, startDb, failedAt, commits, prevLoad>>

\* data['signup_date'] = pd.to_datetime(data['signup_date']).dt.date
TDate ==
    /\ method = TRANSFORM /\ pc = "to_datetime"
    /\ data' = WithDates(data)
    /\ pc' = "filter"
    /\ UNCHANGED <<num_records, rawFile, outFile, db, tx, conn, cur, run, method, i,
                   printed, startDb, failedAt, commits, prevLoad>>

\* data = data[data['email'].apply(self.is_valid_email)]
TFilter ==
    /\ method = TRANSFORM /\ pc = "filter"
    /\ IF FilterRaises(data)
       THEN pc' = "raise" /\ UNCHANGED data
       ELSE pc' = "domain" /\ data' = FilterValid(data)
    /\ UNCHANGED <<num_records, rawFile, outFile, db, tx, conn, cur, run, method, i,
                   printed, startDb, failedAt, commits, prevLoad>>

\* data['domain'] = data['email'].apply(self.extract_domain)
TDomain ==
    /\ method = TRANSFORM /\ pc = "domain"
    /\ IF DomainRaises(data)
       THEN pc' = "raise" /\ UNCHANGED data
       ELSE pc' = "to_csv" /\ data' = WithDomain(data)
    /\ UNCHANGED <<num_records, rawFile, outFile, db, tx, conn, cur, run, method, i,
                   printed, startDb, failedAt, commits, prevLoad>>

\* data.to_csv(self.transformed_csv_filename, index=False); print; return data
TWrite ==
    /\ method = TRANSFORM /\ pc = "to_csv"
    /\ outFile' = ToCsv(data)
    /\ printed' = Append(printed, "Transformed")
    /\ pc' = "return"
    /\ UNCHANGED <<num_records, rawFile, db, tx, conn, cur, run, method, i, data,
                   startDb, failedAt, commits, prevLoad>>

\* to_csv cannot open the file for writing (OSError)
TWriteError ==
    /\ method = TRANSFORM /\ pc = "to_csv"
    /\ pc' = "raise"
    /\ UNCHANGED <<num_records, rawFile, outFile, db, tx, conn, cur, run, method, i,
                   data, printed, startDb, failedAt, commits, prevLoad>>

\* ---------------------------------------------------- load_to_postgresql

CallLoad ==
    /\ TopIdle
    /\ run' = "none"
    /\ BeginMethod(LOAD)
    /\ BeginTopLevel
    /\ UNCHANGED <<num_records, rawFile, outFile, db>>

\* The statements that talk to the database: each can raise psycopg2.Error
DbSteps == {"connect", "cursor", "create", "commit1", "truncate", "commit2",
            "executemany", "commit3", "close"}

\* conn = psycopg2.connect(...)
LConnect ==
    /\ method = LOAD /\ pc = "connect"
    /\ conn' = "open"
    /\ tx' = db
    /\ pc' = "cursor"
    /\ UNCHANGED <<num_records, rawFile, outFile, db, cur, run, method, i, data,
                   printed, startDb, failedAt, commits, prevLoad>>

\* cur = conn.cursor()
LCursor ==
    /\ method = LOAD /\ pc = "cursor"
    /\ cur' = "open"
    /\ pc' = "create"
    /\ UNCHANGED <<num_records, rawFile, outFile, db, tx, conn, run, method, i, data,
                   printed, startDb, failedAt, commits, prevLoad>>

\* cur.execute(create_table_query)
LCreate ==
    /\ method = LOAD /\ pc = "create"
    /\ tx' = Created(tx)
    /\ pc' = "commit1"
    /\ UNCHANGED <<num_records, rawFile, outFile, db, conn, cur, run, method, i, data,
                   printed, startDb, failedAt, commits, prevLoad>>

LCommit1 ==
    /\ method = LOAD /\ pc = "commit1"
    /\ db' = Committed(db, tx)
    /\ commits' = Append(commits, "create")
    /\ pc' = "truncate"
    /\ UNCHANGED <<num_records, rawFile, outFile, tx, conn, cur, run, method, i, data,
                   printed, startDb, failedAt, prevLoad>>

\* cur.execute("TRUNCATE TABLE users RESTART IDENTITY;")
LTruncate ==
    /\ method = LOAD /\ pc = "truncate"
    /\ tx' = Truncated(tx)
    /\ pc' = "commit2"
    /\ UNCHANGED <<num_records, rawFile, outFile, db, conn, cur, run, method, i, data,
                   printed, startDb, failedAt, commits, prevLoad>>

LCommit2 ==
    /\ method = LOAD /\ pc = "commit2"
    /\ db' = Committed(db, tx)
    /\ commits' = Append(commits, "truncate")
    /\ pc' = "read_csv"
    /\ UNCHANGED <<num_records, rawFile, outFile, tx, conn, cur, run, method, i, data,
                   printed, startDb, failedAt, prevLoad>>

\* except Exception as e: print(f"Unexpected error during data loading: {e}")
Unexpected ==
    /\ failedAt' = pc
    /\ printed' = Append(printed, "Unexpected error")
    /\ pc' = HandledPc

\* data = pd.read_csv(self.transformed_csv_filename)
LRead ==
    /\ method = LOAD /\ pc = "read_csv"
    /\ IF ReadFails(outFile)
       THEN Unexpected /\ UNCHANGED data
       ELSE /\ data' = ReadCsv(outFile)
            /\ pc' = "records"
            /\ UNCHANGED <<printed, failedAt>>
    /\ UNCHANGED <<num_records, rawFile, outFile, db, tx, conn, cur, run, method, i,
                   startDb, commits, prevLoad>>

\* records = data[['name', 'email', 'signup_date']].values.tolist()
LRecords ==
    /\ method = LOAD /\ pc = "records"
    /\ IF RecordsRaises(data)
       THEN Unexpected /\ UNCHANGED <<data, i>>
       ELSE /\ data' = Records(data)
            /\ i' = 1
            /\ pc' = "executemany"
            /\ UNCHANGED <<printed, failedAt>>
    /\ UNCHANGED <<num_records, rawFile, outFile, db, tx, conn, cur, run, method,
                   startDb, commits, prevLoad>>

\* cur.executemany(insert_query, records), one INSERT at a time.  The key is
\* the sequence's next value; nextval is never rolled back.
LInsert ==
    /\ method = LOAD /\ pc = "executemany"
    /\ i <= Len(data.rows)
    /\ tx' = [tx EXCEPT !.rows = Append(@, PgRow(tx.seq, data.rows[i])),
                        !.seq = @ + 1]
    /\ db' = [db EXCEPT !.seq = tx.seq + 1]
    /\ i' = i + 1
    /\ UNCHANGED <<num_records, rawFile, outFile, conn, cur, run, method, pc, data,
                   printed, startDb, failedAt, commits, prevLoad>>

LInsertDone ==
    /\ method = LOAD /\ pc = "executemany"
    /\ i > Len(data.rows)
    /\ pc' = "commit3"
    /\ UNCHANGED <<num_records, rawFile, outFile, db, tx, conn, cur, run, method, i,
                   data, printed, startDb, failedAt, commits, prevLoad>>

\* conn.commit(); print("Data inserted successfully into PostgreSQL.")
LCommit3 ==
    /\ method = LOAD /\ pc = "commit3"
    /\ db' = Committed(db, tx)
    /\ commits' = Append(commits, "insert")
    /\ printed' = Append(printed, "Inserted")
    /\ pc' = "close"
    /\ UNCHANGED <<num_records, rawFile, outFile, tx, conn, cur, run, method, i, data,
                   startDb, failedAt, prevLoad>>

\* cur.close(); conn.close(), and the function returns
LClose ==
    /\ method = LOAD /\ pc = "close"
    /\ cur' = "closed"
    /\ conn' = "closed"
    /\ pc' = "return"
    /\ UNCHANGED <<num_records, rawFile, outFile, db, tx, run, method, i, data,
                   printed, startDb, failedAt, commits, prevLoad>>

\* except psycopg2.Error as db_error: print(f"Database error: {db_error}")
\* Nothing else is done: no rollback, no close.
LDbError ==
    /\ method = LOAD /\ pc \in DbSteps
    /\ failedAt' = pc
    /\ printed' = Append(printed, "Database error")
    /\ pc' = HandledPc
    /\ UNCHANGED <<num_records, rawFile, outFile, db, tx, conn, cur, run, method, i,
                   data, startDb, commits, prevLoad>>

\* ------------------------------------------------------- specifications

GenerateStep == GenOpen \/ GenHeader \/ GenRow \/ GenDone \/ GenIOError

TransformStep == TRead \/ TDate \/ TFilter \/ TDomain \/ TWrite \/ TWriteError

LoadStep ==
    \/ LConnect \/ LCursor \/ LCreate \/ LCommit1 \/ LTruncate \/ LCommit2
    \/ LRead \/ LRecords \/ LInsert \/ LInsertDone \/ LCommit3 \/ LClose
    \/ LDbError

\* A users table left by something else: one row, the sequence further on
LegacyTable ==
    [exists |-> TRUE,
     rows |-> <<[user_id |-> 4, name |-> <<"Z", "o", "e">>,
                 email |-> <<"a", "@", "a", ".", "a">>, signup_date |-> <<0, 3>>]>>,
     seq |-> 5]

InitTables == {NoTable, Created(NoTable), LegacyTable}

InitIdle ==
    /\ run = "none"
    /\ method = "none"
    /\ pc = "idle"
    /\ i = 0
    /\ data = NoData
    /\ conn = "none"
    /\ cur = "none"
    /\ tx = NoTable
    /\ printed = <<>>
    /\ startDb = db
    /\ failedAt = "none"
    /\ commits = <<>>
    /\ prevLoad = NoLoad

\* The files generate_csv can write in full
GeneratedFiles ==
    UNION { { [exists |-> TRUE, header |-> RawHeader,
               rows |-> [k \in 1..n |-> RawRow(k, p[k])]] :
              p \in [1..n -> FakeProfiles] } : n \in 0..MaxRecords }

\* The files transform_data writes from them
TransformedFiles ==
    { ToCsv(WithDomain(FilterValid(WithDates(ReadCsv(g))))) :
        g \in {f \in GeneratedFiles : f.rows # <<>>} }

\* The pipeline, run any number of times: UserDataETL(n).run_etl(...)
Init ==
    /\ num_records \in 0..MaxRecords
    /\ rawFile = NoFile
    /\ outFile = NoFile
    /\ db \in InitTables
    /\ InitIdle

Next == RunEtl \/ EtlStep \/ EtlExcept \/ GenerateStep \/ TransformStep \/ LoadStep

Spec == Init /\ [][Next]_vars

\* generate_csv alone, over a file that may exist already
OldFile ==
    [exists |-> TRUE, header |-> RawHeader,
     rows |-> [k \in 1..(MaxRecords + 1) |->
                  RawRow(k + 1, CHOOSE p \in FakeProfiles : p.signup_date = <<2, 2>>)]]

InitGenerate ==
    /\ num_records \in 0..MaxRecords
    /\ rawFile \in {NoFile, OldFile}
    /\ outFile = NoFile
    /\ db = NoTable
    /\ InitIdle

NextGenerate == CallGenerate \/ GenerateStep

SpecGenerate == InitGenerate /\ [][NextGenerate]_vars

\* transform_data alone, over input files of any content: up to MaxRecords
\* records over a few emails, or one record over every email of the bound
EmailSamples ==
    { <<"a", "@", "a", ".", "a">>, <<"a", ".", "a">>,
      <<"a", "@", "a", ".", "a", "\n">>, <<>> }

InputRow(k, e) ==
    [user_id |-> k, name |-> <<"U">>, email |-> e, signup_date |-> <<k, k>>]

InputFiles ==
    {NoFile, EmptyFile}
    \cup UNION { { [exists |-> TRUE, header |-> RawHeader,
                    rows |-> [k \in 1..n |-> InputRow(k, e[k])]] :
                   e \in [1..n -> EmailSamples] } : n \in 0..MaxRecords }
    \cup { [exists |-> TRUE, header |-> RawHeader, rows |-> <<InputRow(1, e)>>] :
             e \in AllEmails }

InitTransform ==
    /\ num_records = MaxRecords
    /\ rawFile \in InputFiles
    /\ outFile = NoFile
    /\ db = NoTable
    /\ InitIdle

NextTransform == CallTransform \/ TransformStep

SpecTransform == InitTransform /\ [][NextTransform]_vars

\* load_to_postgresql alone, any number of times, over a Transformer output
InitLoad ==
    /\ num_records = MaxRecords
    /\ rawFile = NoFile
    /\ outFile \in TransformedFiles \cup {NoFile}
    /\ db \in InitTables
    /\ InitIdle

NextLoad == CallLoad \/ LoadStep

SpecLoad == InitLoad /\ [][NextLoad]_vars

\* ---------------------------------------------------------------- claims

\* The rows a load of file f is to leave: one per record, keys 1..count in
\* file order, name and email as in the file, the file's date at midnight;
\* neither the file's user_id nor its domain.
ExpectedRows(f) ==
    [k \in 1..Len(f.rows) |->
        [user_id |-> k, name |-> f.rows[k].name, email |-> f.rows[k].email,
         signup_date |-> <<f.rows[k].signup_date[1], 0>>]]

Last(s) == s[Len(s)]

\* C1: when load_to_postgresql completes without error, the users table
\* holds exactly one row per record of the Transformer output file, in file
\* order, with keys 1..count and the record's (name, email, signup_date),
\* whatever rows and sequence position the table had before the call.
C1_LoadMirrorsFile ==
    LoadSucceeded =>
        /\ db.exists
        /\ db.rows = ExpectedRows(outFile)
        /\ db.seq = Len(outFile.rows) + 1

\* A load succeeded over a table that held a row and a sequence further on,
\* from a file whose user_ids are not the keys.
C1_Witness ==
    /\ LoadSucceeded
    /\ startDb.rows # <<>> /\ startDb.seq > 1
    /\ \E k \in 1..Len(outFile.rows) : outFile.rows[k].user_id # db.rows[k].user_id

\* The spec's validation pattern, matched against the whole email: one or
\* more of [letters, digits, _ . + -], "@", one or more of [letters, digits,
\* -], ".", one or more of [letters, digits, - .].
MatchesPattern(email) == MatchesUpTo(email, Len(email))

KeptByPattern(r) == MatchesPattern(r.email)

\* C2: transform_data keeps a record if and only if its email matches the
\* validation pattern: the output holds exactly the input records whose
\* email matches, by user_id, in the input's order.
C2_KeepsIffPatternMatches ==
    (method = TRANSFORM /\ pc = "return") =>
        LET kept == SelectSeq(rawFile.rows, KeptByPattern)
        IN  /\ Len(outFile.rows) = Len(kept)
            /\ \A k \in 1..Len(kept) :
                   /\ outFile.rows[k].user_id = kept[k].user_id
                   /\ outFile.rows[k].email = kept[k].email

C4_DbErrorsSwallowed ==
    /\ (method = LOAD /\ failedAt \in DbSteps) =>
           /\ pc = "return"
           /\ Last(printed) = "Database error"
    /\ (run # "none" /\ method = LOAD) =>
           /\ pc # "raise"
           /\ "ETL process failed" \notin Range(printed)

\* run_etl returned after its load hit a database error
C4_Witness ==
    /\ run = "returned"
    /\ method = LOAD
    /\ failedAt \in {"connect", "commit2", "executemany"}

CommitOrder == <<"create", "truncate", "insert">>

AfterTruncateCommit == {"read_csv", "records", "executemany", "commit3"}

\* C5: load_to_postgresql commits after the table creation, after the
\* truncation and after the batch insert, in this order; an error after the
\* truncation commit and before the insert commit leaves the committed table
\* empty: the old rows are gone and none of the new ones is committed.
C5_ThreeCommits ==
    /\ Len(commits) <= Len(CommitOrder)
    /\ commits = SubSeq(CommitOrder, 1, Len(commits))
    /\ LoadSucceeded => commits = CommitOrder
    /\ (method = LOAD /\ failedAt \in AfterTruncateCommit) =>
           /\ commits = <<"create", "truncate">>
           /\ db.exists
           /\ db.rows = <<>>

\* The insert failed part way over a table that held rows
C5_Witness ==
    /\ method = LOAD /\ pc = "return"
    /\ failedAt = "executemany"
    /\ startDb.rows # <<>>
    /\ tx.rows # <<>>
    /\ db.rows = <<>>

Aborted == run = "returned" /\ pc = "raise"

\* C6: run_etl runs generate, transform, load in this order, each after the
\* one before finished; when generate_csv or transform_data fails the run
\* ends with the top-level message, load_to_postgresql is not called, no
\* connection is opened, and the table keeps its rows and key sequence.
C6_AbortBeforeLoad ==
    /\ (run # "none" /\ method = TRANSFORM) => printed[1] = "Generated"
    /\ (run # "none" /\ method = LOAD) =>
           /\ Len(printed) >= 2
           /\ printed[1] = "Generated"
           /\ printed[2] = "Transformed"
    /\ (run = "returned" /\ method \in {GENERATE, TRANSFORM}) => Aborted
    /\ Aborted =>
           /\ method \in {GENERATE, TRANSFORM}
           /\ Last(printed) = "ETL process failed"
           /\ conn = "none" /\ cur = "none"
           /\ commits = <<>>
           /\ db = startDb

\* A run aborted in transform_data, over a table that held a row
C6_Witness ==
    /\ Aborted
    /\ method = TRANSFORM
    /\ startDb.rows # <<>>

\* C7: two successful loads in succession of the same file leave the same
\* table: the same rows under the same keys 1..count.
C7_LoadTwiceSameTable ==
    (LoadSucceeded /\ prevLoad.valid /\ prevLoad.file = outFile) =>
        /\ db = prevLoad.db
        /\ \A k \in 1..Len(db.rows) : db.rows[k].user_id = k

C7_Witness ==
    /\ LoadSucceeded
    /\ prevLoad.valid
    /\ prevLoad.file = outFile
    /\ Len(db.rows) >= 2

\* C8: generate_csv writes the header user_id,name,email,signup_date and
\* exactly num_records records with user_id 1, 2, ..., num_records in this
\* order, in place of what the file held.
C8_GenerateWritesN ==
    (method = GENERATE /\ pc = "return") =>
        /\ rawFile.exists
        /\ rawFile.header = RawHeader
        /\ Len(rawFile.rows) = num_records
        /\ \A k \in 1..Len(rawFile.rows) : rawFile.rows[k].user_id = k

C8_Witness ==
    /\ method = GENERATE /\ pc = "return"
    /\ num_records >= 2
    /\ Len(rawFile.rows) >= 2

\* The text after the last "@" of an email that has one
AfterLastAt(email) ==
    LET p == CHOOSE k \in 1..Len(email) :
                 email[k] = "@" /\ \A j \in (k + 1)..Len(email) : email[j] # "@"
    IN  SubSeq(email, p + 1, Len(email))

\* C9: the domain of every record transform_data retains is the text after
\* the last "@" of its email and is never absent; extract_domain gives None
\* exactly for an email with no "@".
C9_DomainAfterLastAt ==
    /\ (method = TRANSFORM /\ pc \in {"to_csv", "return"}) =>
           \A k \in 1..Len(data.rows) :
               /\ HasAt(data.rows[k].email)
               /\ data.rows[k].domain # None
               /\ data.rows[k].domain = AfterLastAt(data.rows[k].email)
    /\ (method = TRANSFORM /\ pc = "return") =>
           /\ Len(outFile.rows) = Len(data.rows)
           /\ \A k \in 1..Len(outFile.rows) :
                  outFile.rows[k].domain = AfterLastAt(outFile.rows[k].email)
    /\ \A k \in 1..Len(rawFile.rows) :
           (ExtractDomain(rawFile.rows[k].email) = None) <=> ~HasAt(rawFile.rows[k].email)

\* transform_data returned with two records retained
C9_Witness ==
    /\ method = TRANSFORM /\ pc = "return"
    /\ Len(outFile.rows) >= 2

\* C10: a connection opened during load_to_postgresql, and its cursor, are
\* closed by the time the call returns, also when an error was caught.
C10_ConnectionClosedOnReturn ==
    (method = LOAD /\ pc = "return" /\ conn # "none") =>
        /\ conn = "closed"
        /\ cur \in {"none", "closed"}

====
